---- MODULE Spec2Model ----
(***************************************************************************)
(* Model of the nostria-metadata relay-query resolution engine:            *)
(* NostrService (services/nostrService.js) and the MemoryCache of the      *)
(* HTTP layer (index.js).                                                  *)
(*                                                                         *)
(* Strings that the code inspects (relay lists from the environment) are   *)
(* sequences of atoms: "," " " and the scheme prefixes are atoms of their  *)
(* own, every other atom is a run of ordinary characters.                  *)
(***************************************************************************)
EXTENDS Integers, Sequences, FiniteSets, TLC

VARIABLES
    defaultEventRelays,    \* this.defaultEventRelays
    defaultProfileRelays,  \* this.defaultProfileRelays
    pool,                  \* this.pool: "null" or "open"
    profileCache,          \* this.profileCache: pubkey -> {value, timestamp}
    now,                   \* Date.now()
    holders,               \* the relay network: record -> relays that serve it
    calls,                 \* the resolution calls in flight, one per slot
    started,               \* number of resolution calls started so far
    relaysString,          \* parseRelayList: its first argument
    fallbackRelays,        \* parseRelayList: its second argument
    parsed,                \* parseRelayList: [done, value]
    memoryCache,           \* MemoryCache.cache: key -> {value, expiresAt}
    lastCall,              \* the last call of a MemoryCache method
    returned,              \* what that call returned
    http                   \* the HTTP request being served, and its response

vars == << defaultEventRelays, defaultProfileRelays, pool, profileCache, now,
           holders, calls, started, relaysString, fallbackRelays, parsed,
           memoryCache, lastCall, returned, http >>

serviceVars == << defaultEventRelays, defaultProfileRelays, pool, profileCache,
                  now, holders, calls, started >>

parseVars == << relaysString, fallbackRelays, parsed >>

memoryCacheVars == << memoryCache, lastCall, returned >>

\* the state of the HTTP layer
boundaryVars == << memoryCache, lastCall, returned, http >>

-----------------------------------------------------------------------------
(* Bounds of the model *)

MaxStrLen == 4      \* longest configured relay string, in atoms
MaxCalls == 2       \* resolution calls in flight at the same time
MaxStarts == 2      \* resolution calls started in one behaviour
MaxTime == 3        \* last clock value
MaxTtl == 2         \* longest ttl passed to MemoryCache.set

-----------------------------------------------------------------------------
(* Relay addresses and relay lists *)

Atoms == {",", " ", "wss://", "ws://", "http://", "a"}

RA == <<"wss://", "a">>
RB == <<"wss://", "b">>
RC == <<"ws://", "c">>

Relays == {RA, RB, RC}

SeqToSet(s) == {s[i] : i \in 1..Len(s)}

\* [...new Set(xs)]: the first occurrence of every element, in order
RECURSIVE NewSet(_)
NewSet(xs) ==
    IF xs = <<>> THEN <<>>
    ELSE LET front == NewSet(SubSeq(xs, 1, Len(xs) - 1))
             last == xs[Len(xs)]
         IN  IF last \in SeqToSet(front) THEN front ELSE Append(front, last)

\* String.prototype.split(','): the pieces between the commas, empty ones kept
RECURSIVE Split(_)
Split(s) ==
    IF \A i \in 1..Len(s) : s[i] # ","
    THEN <<s>>
    ELSE LET i == CHOOSE j \in 1..Len(s) :
                      s[j] = "," /\ \A k \in 1..(j - 1) : s[k] # ","
         IN  <<SubSeq(s, 1, i - 1)>> \o Split(SubSeq(s, i + 1, Len(s)))

\* String.prototype.trim(): leading and trailing white space removed
RECURSIVE Trim(_)
Trim(s) ==
    IF s = <<>> THEN s
    ELSE IF s[1] = " " THEN Trim(Tail(s))
    ELSE IF s[Len(s)] = " " THEN Trim(SubSeq(s, 1, Len(s) - 1))
    ELSE s

\* relay.startsWith('wss://') || relay.startsWith('ws://')
ValidScheme(relay) == relay # <<>> /\ relay[1] \in {"wss://", "ws://"}

MapTrim(xs) == [i \in 1..Len(xs) |-> Trim(xs[i])]

parseRelayList_NoTrim(str, fallback) ==
    LET source == IF str # <<>> THEN Split(str) ELSE fallback
    IN  NewSet(SelectSeq(source, ValidScheme))

parseRelayList(str, fallback) ==
    LET source == IF str # <<>> THEN Split(str) ELSE fallback
    IN  NewSet(SelectSeq(MapTrim(source), ValidScheme))

\* a || b on strings: the empty and the unset string are both falsy
OrElse(a, b) == IF a # <<>> THEN a ELSE b

-----------------------------------------------------------------------------
(* parseRelayList as a function of its inputs *)

RECURSIVE StringsUpTo(_)
StringsUpTo(n) ==
    IF n = 0 THEN {<<>>}
    ELSE LET shorter == StringsUpTo(n - 1)
         IN  shorter \cup {Append(s, a) : s \in shorter, a \in Atoms}

FallbackChoices == {<<RA>>, <<RA, RB>>, <<RB, RA, RC>>}

NotParsed == [done |-> FALSE, value |-> <<>>]

ParseIdle ==
    /\ relaysString = <<>>
    /\ fallbackRelays = <<RA>>
    /\ parsed = NotParsed

ParseInit ==
    /\ relaysString \in StringsUpTo(MaxStrLen)
    /\ fallbackRelays \in FallbackChoices
    /\ parsed = NotParsed

ParseRelayList ==
    /\ ~parsed.done
    /\ parsed' = [done |-> TRUE, value |-> parseRelayList(relaysString, fallbackRelays)]
    /\ UNCHANGED << relaysString, fallbackRelays >>
    /\ UNCHANGED boundaryVars

-----------------------------------------------------------------------------
(* Records served by the relays, filters, and the pool's answer *)

NoRecord == [kind |-> -1, id |-> "", pubkey |-> "", content |-> "", d |-> ""]
Ev1 == [kind |-> 1, id |-> "e1", pubkey |-> "pk1", content |-> "text", d |-> ""]
Meta1 == [kind |-> 0, id |-> "m1", pubkey |-> "pk1", content |-> "json", d |-> ""]
Meta2 == [kind |-> 0, id |-> "m2", pubkey |-> "pk2", content |-> "garbage", d |-> ""]
Art1 == [kind |-> 30023, id |-> "a1", pubkey |-> "pk1", content |-> "text", d |-> "d1"]

Records == {Ev1, Meta1, Meta2, Art1}
RecordIds == {r.id : r \in Records}
Pubkeys == {"pk1", "pk2"}

\* the relay sets a record may be served by
HolderSets == {{}, {RA}, {RB}}

\* the networks: who serves which record
Networks ==
    {h \in [RecordIds -> HolderSets] : h["a1"] = h["e1"] /\ h["m2"] = {RA}}

NoFilter == [ids |-> "", authors |-> "", kinds |-> -1, d |-> ""]
EventFilter(eventId) == [NoFilter EXCEPT !.ids = eventId]
ProfileFilter(pubkey) == [NoFilter EXCEPT !.kinds = 0, !.authors = pubkey]
ArticleFilter(author, identifier, kind) ==
    [NoFilter EXCEPT !.authors = author, !.kinds = kind, !.d = identifier]

Matches(rec, filter) ==
    /\ filter.ids = "" \/ rec.id = filter.ids
    /\ filter.authors = "" \/ rec.pubkey = filter.authors
    /\ filter.kinds = -1 \/ rec.kind = filter.kinds
    /\ filter.d = "" \/ rec.d = filter.d

\* the relays of a list that serve a record matching the filter
Serving(relays, filter) ==
    {r \in SeqToSet(relays) : \E rec \in Records : Matches(rec, filter) /\ r \in holders[rec.id]}

\* pool.get(relays, filter, {timeout}): a matching record of a queried relay, or null
PoolGet(relays, filter) ==
    LET found == {rec \in Records :
                     Matches(rec, filter) /\ holders[rec.id] \cap SeqToSet(relays) # {}}
    IN  IF found = {} THEN NoRecord ELSE CHOOSE rec \in found : TRUE

-----------------------------------------------------------------------------
(* Service configuration *)

timeout == 3000
retryTimeout == 1800
profileTimeout == timeout
profileCacheTtlMs == 1

BuiltinEventRelays == <<RA, RB>>
BuiltinProfileRelays == <<RB, RA>>

\* the environment: DEFAULT_EVENT_RELAYS, DEFAULT_PROFILE_RELAYS, DEFAULT_RELAYS
Environments ==
    { [event |-> <<>>, profile |-> <<>>, shared |-> <<>>],
      [event |-> <<"wss://", "a">>,
       profile |-> <<" ", "wss://", "b", ",", "wss://", "b">>,
       shared |-> <<"wss://", "c">>],
      [event |-> <<>>, profile |-> <<"wss://", "b">>, shared |-> <<"http://", "a">>] }

getAllKnownRelays == NewSet(defaultEventRelays \o defaultProfileRelays)

\* the default relays come first
buildRelayList_DefaultsFirst(relayHints, type) ==
    LET baseRelays == IF type = "profile" THEN defaultProfileRelays
                      ELSE defaultEventRelays
    IN  NewSet(baseRelays \o relayHints)

buildRelayList(relayHints, type) ==
    LET baseRelays == IF type = "profile" THEN defaultProfileRelays
                      ELSE defaultEventRelays
    IN  NewSet(relayHints \o baseRelays)

-----------------------------------------------------------------------------
(* The profile cache *)

NoObject == [oid |-> 0, record |-> NoRecord, profile |-> ""]
NoEntry == [present |-> FALSE, value |-> NoObject, timestamp |-> 0]

EmptyCache == [pk \in Pubkeys |-> NoEntry]

\* the comparison is the wrong way round
Expired_Inverted(entry, t) == t - entry.timestamp < profileCacheTtlMs

\* Date.now() - cached.timestamp > this.profileCacheTtlMs
Expired(entry, t) == t - entry.timestamp > profileCacheTtlMs

\* getCachedProfile: the value it returns
getCachedProfile(cache, pubkey, t) ==
    IF ~cache[pubkey].present THEN NoObject
    ELSE IF Expired(cache[pubkey], t) THEN NoObject
    ELSE cache[pubkey].value

\* getCachedProfile: the cache it leaves
AfterGetCachedProfile(cache, pubkey, t) ==
    IF cache[pubkey].present /\ Expired(cache[pubkey], t)
    THEN [cache EXCEPT ![pubkey] = NoEntry]
    ELSE cache

\* an entry stored under the pubkey is kept
setCachedProfile_KeepFirst(cache, pubkey, profile, t) ==
    IF cache[pubkey].present THEN cache
    ELSE [cache EXCEPT ![pubkey] = [present |-> TRUE, value |-> profile, timestamp |-> t]]

setCachedProfile(cache, pubkey, profile, t) ==
    [cache EXCEPT ![pubkey] = [present |-> TRUE, value |-> profile, timestamp |-> t]]

-----------------------------------------------------------------------------
(* fetchFromRelays and fetchWithRetry *)

\* the state of one fetchWithRetry call
\*   phase: "none", "first" (first query in flight), "retry" (second query in
\*          flight), "returned", "threw"
\*   queries: pool queries issued; from: the query that yielded the result
\*   torn: the pool was closed while the query in flight was on it
\*   lost: a query of the call went unanswered because its pool was closed
\*   thrownAt: the number of the query that threw, 0 if none did
NoFetch ==
    [phase |-> "none", relays |-> <<>>, retryRelays |-> <<>>, filter |-> NoFilter,
     timeoutMs |-> 0, queries |-> 0, result |-> NoRecord, from |-> 0, err |-> "",
     torn |-> FALSE, lost |-> FALSE, thrownAt |-> 0]

InFlight(f) == f.phase \in {"first", "retry"}
Settled(f) == f.phase \in {"returned", "threw"}

\* the relays of the query in flight
Queried(f) == IF f.phase = "retry" THEN f.retryRelays ELSE f.relays

\* fetchFromRelays: this.pool.get(...) on the pool p; a null pool is a TypeError
fetchFromRelays(f, relays, timeoutMs, p) ==
    IF p = "null"
    THEN [f EXCEPT !.phase = "threw", !.err = "TypeError"]
    ELSE [f EXCEPT !.timeoutMs = timeoutMs, !.queries = f.queries + 1, !.torn = FALSE]

\* fetchWithRetry up to its first await
fetchWithRetry(relays, filter, timeoutMs, p) ==
    fetchFromRelays([NoFetch EXCEPT !.phase = "first", !.relays = relays,
                                    !.filter = filter],
                    relays, timeoutMs, p)

\* What the pool makes of the query in flight: net = "throw" is a transport
\* error, "lost" an unanswered query of a pool that was closed, "answer" the
\* answer of the queried relays.
Answer(f, net) ==
    IF net = "throw" THEN [threw |-> TRUE, record |-> NoRecord]
    ELSE IF net = "lost" THEN [threw |-> FALSE, record |-> NoRecord]
    ELSE [threw |-> FALSE, record |-> PoolGet(Queried(f), f.filter)]

NetChoices(f) == IF f.torn THEN {"answer", "throw", "lost"} ELSE {"answer", "throw"}

\* the retry asks the relays of the first query again
AfterFirstTry_RetrySameRelays(f, firstTry, p) ==
    IF firstTry.threw THEN [f EXCEPT !.phase = "threw", !.err = "TransportError"]
    ELSE IF firstTry.record # NoRecord
    THEN [f EXCEPT !.phase = "returned", !.result = firstTry.record, !.from = 1]
    ELSE LET allRelays == getAllKnownRelays
             retryRelays == NewSet(f.relays \o allRelays)
         IN  IF Len(retryRelays) <= Len(f.relays)
             THEN [f EXCEPT !.phase = "returned"]
             ELSE fetchFromRelays([f EXCEPT !.phase = "retry",
                                            !.retryRelays = f.relays],
                                  f.relays, retryTimeout, p)

\* the retry is skipped only when the expanded list is shorter
AfterFirstTry_StrictlyShorter(f, firstTry, p) ==
    IF firstTry.threw THEN [f EXCEPT !.phase = "threw", !.err = "TransportError"]
    ELSE IF firstTry.record # NoRecord
    THEN [f EXCEPT !.phase = "returned", !.result = firstTry.record, !.from = 1]
    ELSE LET allRelays == getAllKnownRelays
             retryRelays == NewSet(f.relays \o allRelays)
         IN  IF Len(retryRelays) < Len(f.relays)
             THEN [f EXCEPT !.phase = "returned"]
             ELSE fetchFromRelays([f EXCEPT !.phase = "retry",
                                            !.retryRelays = retryRelays],
                                  retryRelays, retryTimeout, p)

\* a first query that throws is taken for a miss
AfterFirstTry_RetryOnError(f, firstTry, p) ==
    IF firstTry.record # NoRecord
    THEN [f EXCEPT !.phase = "returned", !.result = firstTry.record, !.from = 1]
    ELSE LET allRelays == getAllKnownRelays
             retryRelays == NewSet(f.relays \o allRelays)
         IN  IF Len(retryRelays) <= Len(f.relays)
             THEN [f EXCEPT !.phase = "returned"]
             ELSE fetchFromRelays([f EXCEPT !.phase = "retry",
                                            !.retryRelays = retryRelays],
                                  retryRelays, retryTimeout, p)

\* the retry is given the timeout of the first query
AfterFirstTry_RetryFirstTimeout(f, firstTry, p) ==
    IF firstTry.threw THEN [f EXCEPT !.phase = "threw", !.err = "TransportError"]
    ELSE IF firstTry.record # NoRecord
    THEN [f EXCEPT !.phase = "returned", !.result = firstTry.record, !.from = 1]
    ELSE LET allRelays == getAllKnownRelays
             retryRelays == NewSet(f.relays \o allRelays)
         IN  IF Len(retryRelays) <= Len(f.relays)
             THEN [f EXCEPT !.phase = "returned"]
             ELSE fetchFromRelays([f EXCEPT !.phase = "retry",
                                            !.retryRelays = retryRelays],
                                  retryRelays, f.timeoutMs, p)

\* a record of the first query does not keep the larger list from being asked
AfterFirstTry_RetryWhenLarger(f, firstTry, p) ==
    IF firstTry.threw THEN [f EXCEPT !.phase = "threw", !.err = "TransportError"]
    ELSE LET allRelays == getAllKnownRelays
             retryRelays == NewSet(f.relays \o allRelays)
         IN  IF Len(retryRelays) <= Len(f.relays)
             THEN [f EXCEPT !.phase = "returned", !.result = firstTry.record,
                            !.from = IF firstTry.record # NoRecord THEN 1 ELSE 0]
             ELSE fetchFromRelays([f EXCEPT !.phase = "retry",
                                            !.retryRelays = retryRelays],
                                  retryRelays, retryTimeout, p)

\* fetchWithRetry from the first query's answer on
AfterFirstTry(f, firstTry, p) ==
    IF firstTry.threw THEN [f EXCEPT !.phase = "threw", !.err = "TransportError"]
    ELSE IF firstTry.record # NoRecord
    THEN [f EXCEPT !.phase = "returned", !.result = firstTry.record, !.from = 1]
    ELSE LET allRelays == getAllKnownRelays
             retryRelays == NewSet(f.relays \o allRelays)
         IN  IF Len(retryRelays) <= Len(f.relays)
             THEN [f EXCEPT !.phase = "returned"]
             ELSE fetchFromRelays([f EXCEPT !.phase = "retry",
                                            !.retryRelays = retryRelays],
                                  retryRelays, retryTimeout, p)

\* fetchWithRetry from the retry's answer on
AfterRetry(f, retry) ==
    IF retry.threw THEN [f EXCEPT !.phase = "threw", !.err = "TransportError"]
    ELSE [f EXCEPT !.phase = "returned", !.result = retry.record,
                   !.from = IF retry.record # NoRecord THEN 2 ELSE 0]

\* the fetch after the query in flight is answered
FetchStep(f, net, p) ==
    LET g == [f EXCEPT !.lost = @ \/ net = "lost",
                       !.thrownAt = IF net = "throw" THEN f.queries ELSE @]
    IN  IF f.phase = "first" THEN AfterFirstTry(g, Answer(f, net), p)
        ELSE AfterRetry(g, Answer(f, net))

-----------------------------------------------------------------------------
(* getProfile *)

\* JSON.parse(content): only the metadata content "json" parses
JSONParse(content) ==
    IF content = "json" THEN [ok |-> TRUE, value |-> "alice"]
    ELSE [ok |-> FALSE, value |-> ""]

\* the state of one getProfile call
\*   state: "none", "fetching", "done"; out: "none", "value", "null", "throw"
NoProf ==
    [state |-> "none", pubkey |-> "", fetch |-> NoFetch, out |-> "none",
     obj |-> NoObject, err |-> ""]

\* getProfile up to its first await: [prof, cache]
getProfile(pubkey, relayHints) ==
    IF pubkey = ""
    THEN [prof |-> [NoProf EXCEPT !.state = "done", !.out = "throw",
                                  !.err = "pubkey is required"],
          cache |-> profileCache]
    ELSE LET cachedProfile == getCachedProfile(profileCache, pubkey, now)
             cache == AfterGetCachedProfile(profileCache, pubkey, now)
         IN  IF cachedProfile # NoObject
             THEN [prof |-> [NoProf EXCEPT !.state = "done", !.pubkey = pubkey,
                                           !.out = "value", !.obj = cachedProfile],
                   cache |-> cache]
             ELSE LET relays == buildRelayList(relayHints, "profile")
                      f == fetchWithRetry(relays, ProfileFilter(pubkey),
                                          profileTimeout, "open")
                  IN  [prof |-> [NoProf EXCEPT !.state = "fetching",
                                               !.pubkey = pubkey, !.fetch = f],
                       cache |-> cache]

\* content that does not parse fails the resolution
AfterProfileFetch_ThrowOnParse(prof, f, oid) ==
    IF f.phase = "threw"
    THEN [prof |-> [prof EXCEPT !.state = "done", !.fetch = f, !.out = "throw",
                                !.err = f.err],
          cache |-> profileCache]
    ELSE IF f.result = NoRecord
    THEN [prof |-> [prof EXCEPT !.state = "done", !.fetch = f, !.out = "null"],
          cache |-> profileCache]
    ELSE LET p == JSONParse(f.result.content)
             result == [oid |-> oid, record |-> f.result, profile |-> p.value]
         IN  IF ~p.ok
             THEN [prof |-> [prof EXCEPT !.state = "done", !.fetch = f,
                                         !.out = "throw", !.err = "SyntaxError"],
                   cache |-> profileCache]
             ELSE [prof |-> [prof EXCEPT !.state = "done", !.fetch = f,
                                         !.out = "value", !.obj = result],
                   cache |-> setCachedProfile(profileCache, prof.pubkey, result, now)]

\* a resolution that finds no record is remembered as well
AfterProfileFetch_CacheAbsent(prof, f, oid) ==
    IF f.phase = "threw"
    THEN [prof |-> [prof EXCEPT !.state = "done", !.fetch = f, !.out = "throw",
                                !.err = f.err],
          cache |-> profileCache]
    ELSE IF f.result = NoRecord
    THEN [prof |-> [prof EXCEPT !.state = "done", !.fetch = f, !.out = "null"],
          cache |-> setCachedProfile(profileCache, prof.pubkey,
                                     [oid |-> oid, record |-> NoRecord,
                                      profile |-> "{}"], now)]
    ELSE LET p == JSONParse(f.result.content)
             profileData == IF p.ok THEN p.value ELSE "{}"
             result == [oid |-> oid, record |-> f.result, profile |-> profileData]
         IN  [prof |-> [prof EXCEPT !.state = "done", !.fetch = f,
                                    !.out = "value", !.obj = result],
              cache |-> setCachedProfile(profileCache, prof.pubkey, result, now)]

\* getProfile after fetchWithRetry settled with f: [prof, cache]
\* oid is the identity of the result object this call creates
AfterProfileFetch(prof, f, oid) ==
    IF f.phase = "threw"
    THEN [prof |-> [prof EXCEPT !.state = "done", !.fetch = f, !.out = "throw",
                                !.err = f.err],
          cache |-> profileCache]
    ELSE IF f.result = NoRecord
    THEN [prof |-> [prof EXCEPT !.state = "done", !.fetch = f, !.out = "null"],
          cache |-> profileCache]
    ELSE LET p == JSONParse(f.result.content)
             profileData == IF p.ok THEN p.value ELSE "{}"
             result == [oid |-> oid, record |-> f.result, profile |-> profileData]
         IN  [prof |-> [prof EXCEPT !.state = "done", !.fetch = f,
                                    !.out = "value", !.obj = result],
              cache |-> setCachedProfile(profileCache, prof.pubkey, result, now)]

-----------------------------------------------------------------------------
(* The HTTP layer: request parameters and nip19.decode *)

\* A request parameter is a sequence of atoms: a hex string is one atom, an
\* encoded entity is its prefix followed by its payload.
StartsWith(param, prefix) == param # <<>> /\ param[1] = prefix

\* the parameter as one string, for a parameter taken as hex
WholeString(param) == IF Len(param) = 1 THEN param[1] ELSE "?"

EventParams ==
    {<<"e1">>, <<"e9">>, <<"nevent1", "e1@c">>, <<"nevent1", "bad">>}
ProfileParams ==
    {<<"pk1">>, <<"pk2">>, <<"npub", "pk1">>, <<"nprofile", "pk1@c">>, <<"npub", "bad">>}
ArticleParams ==
    {<<"naddr", "a1@c">>, <<"naddr", "a9">>, <<"naddr", "noid">>,
     <<"naddr", "kind0">>, <<"naddr", "bad">>, <<"e1">>}

\* nip19.decode(param): ok is FALSE when it throws
NoDecoded ==
    [ok |-> FALSE, type |-> "", id |-> "", pubkey |-> "", identifier |-> "",
     kind |-> 0, relays |-> <<>>]

Decode(param) ==
    CASE param = <<"nevent1", "e1@c">> ->
             [NoDecoded EXCEPT !.ok = TRUE, !.type = "nevent", !.id = "e1",
                               !.relays = <<RC>>]
      [] param = <<"npub", "pk1">> ->
             [NoDecoded EXCEPT !.ok = TRUE, !.type = "npub", !.pubkey = "pk1"]
      [] param = <<"nprofile", "pk1@c">> ->
             [NoDecoded EXCEPT !.ok = TRUE, !.type = "nprofile", !.pubkey = "pk1",
                               !.relays = <<RC>>]
      [] param = <<"naddr", "a1@c">> ->
             [NoDecoded EXCEPT !.ok = TRUE, !.type = "naddr", !.pubkey = "pk1",
                               !.identifier = "d1", !.kind = 30023, !.relays = <<RC>>]
      [] param = <<"naddr", "a9">> ->
             [NoDecoded EXCEPT !.ok = TRUE, !.type = "naddr", !.pubkey = "pk2",
                               !.identifier = "d1", !.kind = 30023]
      [] param = <<"naddr", "noid">> ->
             [NoDecoded EXCEPT !.ok = TRUE, !.type = "naddr", !.pubkey = "pk1",
                               !.identifier = "", !.kind = 30023]
      [] param = <<"naddr", "kind0">> ->
             [NoDecoded EXCEPT !.ok = TRUE, !.type = "naddr", !.pubkey = "pk1",
                               !.identifier = "d1", !.kind = 0]
      [] OTHER -> NoDecoded

\* `event:${eventId}`, `profile:${profileId}`, `article:${addr}`
CacheKey(prefix, param) == <<prefix>> \o param

HttpKeys ==
    {CacheKey("event:", param) : param \in EventParams}
        \cup {CacheKey("profile:", param) : param \in ProfileParams}
        \cup {CacheKey("article:", param) : param \in ArticleParams}

\* the request being served
\*   state: "idle", "awaiting" (the handler awaits the resolution call),
\*          "responded"
\*   status: the status of the response, 0 before it; error: its error text
\*   result: what the resolution call yielded: "none" (not called, or not yet
\*           settled), "value", "null", "throw"; details: error.message
NoRequest ==
    [state |-> "idle", endpoint |-> "", param |-> <<>>, status |-> 0,
     error |-> "", result |-> "none", details |-> ""]

Received(endpoint, param) ==
    [NoRequest EXCEPT !.state = "awaiting", !.endpoint = endpoint, !.param = param]

\* res.status(status).json({error, details})
Respond(h, status, error) ==
    [h EXCEPT !.state = "responded", !.status = status, !.error = error]

-----------------------------------------------------------------------------
(* MemoryCache *)

CacheKeys == {<<"event:", "e1">>, <<"profile:", "pk1">>}

\* every key of the behaviours checked
StoreKeys == CacheKeys \cup HttpKeys

\* set(key, value, ttl = 3600000)
defaultTtl == MaxTtl
CacheValues == {"v1", "v2"}
TtlChoices == 1..MaxTtl

NoCacheEntry == [present |-> FALSE, value |-> "null", expiresAt |-> 0]
EmptyMemoryCache == [k \in StoreKeys |-> NoCacheEntry]

\* the last call: its method, its key, the clock, and whether an entry was
\* stored under the key
\*   value: the value passed to set; replaced: the value that set replaced
\*   justSet: the call is a get that follows a set of its key at once, and
\*            value and replaced are those of that set
NoCall ==
    [method |-> "none", key |-> <<>>, at |-> 0, hadEntry |-> FALSE,
     value |-> "none", replaced |-> "none", justSet |-> FALSE]
TheCall(method, key) ==
    [NoCall EXCEPT !.method = method, !.key = key, !.at = now,
                   !.hadEntry = IF key \in StoreKeys THEN memoryCache[key].present
                                ELSE FALSE]

\* the last call was set(key, ...) and the clock has not advanced since
JustSet(key) == lastCall.method = "set" /\ lastCall.key = key /\ lastCall.at = now

MemoryCacheIdle ==
    /\ memoryCache = EmptyMemoryCache
    /\ lastCall = NoCall
    /\ returned = "undefined"

\* Date.now() > cached.expiresAt
CacheExpired(entry, t) == t > entry.expiresAt

\* MemoryCache.get: the value it returns
MemoryCacheGetValue(c, key, t) ==
    IF ~c[key].present THEN "null"
    ELSE IF CacheExpired(c[key], t) THEN "null"
    ELSE c[key].value

\* MemoryCache.get: the map it leaves
AfterMemoryCacheGet(c, key, t) ==
    IF c[key].present /\ CacheExpired(c[key], t)
    THEN [c EXCEPT ![key] = NoCacheEntry]
    ELSE c

\* an entry stored under the key is kept
MemoryCacheSet_KeepExisting(key, value, ttl) ==
    /\ memoryCache' =
           IF memoryCache[key].present THEN memoryCache
           ELSE [memoryCache EXCEPT ![key] =
                    [present |-> TRUE, value |-> value, expiresAt |-> now + ttl]]
    /\ lastCall' = [TheCall("set", key) EXCEPT !.value = value,
                                               !.replaced = memoryCache[key].value]
    /\ returned' = "undefined"

MemoryCacheSet(key, value, ttl) ==
    /\ memoryCache' = [memoryCache EXCEPT ![key] =
                     [present |-> TRUE, value |-> value, expiresAt |-> now + ttl]]
    /\ lastCall' = [TheCall("set", key) EXCEPT !.value = value,
                                               !.replaced = memoryCache[key].value]
    /\ returned' = "undefined"

MemoryCacheGet(key) ==
    /\ memoryCache' = AfterMemoryCacheGet(memoryCache, key, now)
    /\ lastCall' = IF JustSet(key)
                   THEN [TheCall("get", key) EXCEPT !.justSet = TRUE,
                                                    !.value = lastCall.value,
                                                    !.replaced = lastCall.replaced]
                   ELSE TheCall("get", key)
    /\ returned' = MemoryCacheGetValue(memoryCache, key, now)

MemoryCacheDelete(key) ==
    /\ memoryCache' = [memoryCache EXCEPT ![key] = NoCacheEntry]
    /\ lastCall' = TheCall("delete", key)
    /\ returned' = "undefined"

MemoryCacheClear ==
    /\ memoryCache' = EmptyMemoryCache
    /\ lastCall' = TheCall("clear", <<>>)
    /\ returned' = "undefined"

MemoryCacheCleanup ==
    /\ memoryCache' = [k \in StoreKeys |->
                    IF memoryCache[k].present /\ now > memoryCache[k].expiresAt
                    THEN NoCacheEntry ELSE memoryCache[k]]
    /\ lastCall' = TheCall("cleanup", <<>>)
    /\ returned' = "undefined"

-----------------------------------------------------------------------------
(* Resolution calls: getEvent, getProfile, getArticle *)

Calls == 1..MaxCalls

\* the state of one resolution call
\*   op: "idle", "getEvent", "getProfile", "getArticle"
\*   pc: "idle"; "main" (awaiting the primary fetchWithRetry); "enrich" (getEvent
\*       awaiting getProfile); "join" (getArticle awaiting authorProfilePromise);
\*       "profile" (getProfile awaiting fetchWithRetry); "done"
\*   seq: the call's number, the identity of the object its getProfile creates
\*   out: "none", "value", "null", "throw"; record and author: the returned
\*       event or article and its author field (NoObject: no author field);
\*       obj: the object getProfile returned
\*   args: the arguments of the call other than the relay hints
NoArgs == [id |-> "", pubkey |-> "", identifier |-> "", kind |-> 0]

IdleCall ==
    [op |-> "idle", seq |-> 0, hints |-> <<>>, pc |-> "idle", main |-> NoFetch, prof |-> NoProf,
     out |-> "none", record |-> NoRecord, author |-> NoObject, obj |-> NoObject,
     err |-> "", args |-> NoArgs]

HintChoices == {<<>>, <<RC>>, <<RB, RA, RB>>}
EventIdChoices == {"", "e1"}
PubkeyChoices == {""} \cup Pubkeys
IdentifierChoices == {"", "d1"}
KindChoices == {0, 30023}

Throw(c, err) == [c EXCEPT !.pc = "done", !.out = "throw", !.err = err]
ReturnNull(c) == [c EXCEPT !.pc = "done", !.out = "null"]

\* return event, with event.author = authorProfile when the profile resolved
ReturnEnriched(c, event, prof) ==
    [c EXCEPT !.pc = "done", !.out = "value", !.record = event,
              !.author = IF prof.out = "value" THEN prof.obj ELSE NoObject]

\* getProfile called directly returns what its resolution yields
ReturnProfile(c, prof) ==
    [c EXCEPT !.pc = "done", !.out = prof.out, !.obj = prof.obj, !.err = prof.err]

MayStart(i) ==
    /\ calls[i].op = "idle"
    /\ started < MaxStarts

NewCall(op, relayHints) ==
    [IdleCall EXCEPT !.op = op, !.seq = started + 1, !.hints = relayHints]

StartGetEvent(i, eventId, relayHints) ==
    /\ MayStart(i)
    /\ started' = started + 1
    /\ pool' = "open"
    /\ LET c == [NewCall("getEvent", relayHints) EXCEPT !.args.id = eventId]
       IN  IF eventId = ""
           THEN calls' = [calls EXCEPT ![i] = Throw(c, "eventId is required")]
           ELSE LET relays == buildRelayList(relayHints, "event")
                    f == fetchWithRetry(relays, EventFilter(eventId), timeout, "open")
                IN  calls' = [calls EXCEPT ![i] = [c EXCEPT !.pc = "main", !.main = f]]
    /\ UNCHANGED << defaultEventRelays, defaultProfileRelays, profileCache, now,
                    holders, parseVars >>

StartGetProfile(i, pubkey, relayHints) ==
    /\ MayStart(i)
    /\ started' = started + 1
    /\ pool' = "open"
    /\ LET c == [NewCall("getProfile", relayHints) EXCEPT !.args.pubkey = pubkey]
           s == getProfile(pubkey, relayHints)
       IN  /\ profileCache' = s.cache
           /\ calls' = [calls EXCEPT ![i] =
                  IF s.prof.state = "done"
                  THEN ReturnProfile([c EXCEPT !.prof = s.prof], s.prof)
                  ELSE [c EXCEPT !.pc = "profile", !.prof = s.prof]]
    /\ UNCHANGED << defaultEventRelays, defaultProfileRelays, now, holders, parseVars >>

\* the author profile is requested before the arguments are checked
StartGetArticle_ProfileFirst(i, author, identifier, kind, relayHints) ==
    /\ MayStart(i)
    /\ started' = started + 1
    /\ pool' = "open"
    /\ LET c == [NewCall("getArticle", relayHints) EXCEPT
                     !.args = [id |-> "", pubkey |-> author,
                               identifier |-> identifier, kind |-> kind]]
           s == getProfile(author, relayHints)
       IN  IF author = "" \/ identifier = "" \/ kind = 0
           THEN /\ calls' = [calls EXCEPT ![i] =
                       Throw([c EXCEPT !.prof = s.prof],
                             "author, identifier and kind are required")]
                /\ profileCache' = s.cache
           ELSE LET relays == buildRelayList(relayHints, "event")
                    f == fetchWithRetry(relays, ArticleFilter(author, identifier, kind),
                                        timeout, "open")
                IN  /\ profileCache' = s.cache
                    /\ calls' = [calls EXCEPT ![i] =
                           [c EXCEPT !.pc = "main", !.main = f, !.prof = s.prof]]
    /\ UNCHANGED << defaultEventRelays, defaultProfileRelays, now, holders, parseVars >>

\* the author profile is not requested while the article is being fetched
StartGetArticle_Sequential(i, author, identifier, kind, relayHints) ==
    /\ MayStart(i)
    /\ started' = started + 1
    /\ pool' = "open"
    /\ LET c == [NewCall("getArticle", relayHints) EXCEPT
                     !.args = [id |-> "", pubkey |-> author,
                               identifier |-> identifier, kind |-> kind]]
       IN  IF author = "" \/ identifier = "" \/ kind = 0
           THEN calls' = [calls EXCEPT ![i] =
                    Throw(c, "author, identifier and kind are required")]
           ELSE LET relays == buildRelayList(relayHints, "event")
                    f == fetchWithRetry(relays, ArticleFilter(author, identifier, kind),
                                        timeout, "open")
                IN  calls' = [calls EXCEPT ![i] = [c EXCEPT !.pc = "main", !.main = f]]
    /\ UNCHANGED << defaultEventRelays, defaultProfileRelays, profileCache, now,
                    holders, parseVars >>

\* the hints are added to the default lists in place
StartGetArticle_HintsKept(i, author, identifier, kind, relayHints) ==
    /\ MayStart(i)
    /\ started' = started + 1
    /\ pool' = "open"
    /\ LET c == [NewCall("getArticle", relayHints) EXCEPT
                     !.args = [id |-> "", pubkey |-> author,
                               identifier |-> identifier, kind |-> kind]]
       IN  IF author = "" \/ identifier = "" \/ kind = 0
           THEN /\ calls' = [calls EXCEPT ![i] =
                       Throw(c, "author, identifier and kind are required")]
                /\ UNCHANGED profileCache
           ELSE LET relays == buildRelayList(relayHints, "event")
                    s == getProfile(author, relayHints)
                    f == fetchWithRetry(relays, ArticleFilter(author, identifier, kind),
                                        timeout, "open")
                IN  /\ profileCache' = s.cache
                    /\ calls' = [calls EXCEPT ![i] =
                           [c EXCEPT !.pc = "main", !.main = f, !.prof = s.prof]]
    /\ defaultEventRelays' = NewSet(relayHints \o defaultEventRelays)
    /\ defaultProfileRelays' = NewSet(relayHints \o defaultProfileRelays)
    /\ UNCHANGED << now, holders, parseVars >>

StartGetArticle(i, author, identifier, kind, relayHints) ==
    /\ MayStart(i)
    /\ started' = started + 1
    /\ pool' = "open"
    /\ LET c == [NewCall("getArticle", relayHints) EXCEPT
                     !.args = [id |-> "", pubkey |-> author,
                               identifier |-> identifier, kind |-> kind]]
       IN  IF author = "" \/ identifier = "" \/ kind = 0
           THEN /\ calls' = [calls EXCEPT ![i] =
                       Throw(c, "author, identifier and kind are required")]
                /\ UNCHANGED profileCache
           ELSE LET relays == buildRelayList(relayHints, "event")
                    s == getProfile(author, relayHints)
                    f == fetchWithRetry(relays, ArticleFilter(author, identifier, kind),
                                        timeout, "open")
                IN  /\ profileCache' = s.cache
                    /\ calls' = [calls EXCEPT ![i] =
                           [c EXCEPT !.pc = "main", !.main = f, !.prof = s.prof]]
    /\ UNCHANGED << defaultEventRelays, defaultProfileRelays, now, holders, parseVars >>

\* an event that is not found is an error
AfterEventFetch_ThrowOnMiss(c, f) ==
    LET c1 == [c EXCEPT !.main = f]
    IN  IF f.phase = "threw" \/ f.result = NoRecord
        THEN [call |-> Throw(c1, IF f.phase = "threw" THEN f.err ELSE "not found"),
              cache |-> profileCache, pool |-> pool]
        ELSE IF f.result.pubkey # ""
        THEN LET s == getProfile(f.result.pubkey, c.hints)
             IN  [call |-> IF s.prof.state = "done"
                           THEN ReturnEnriched([c1 EXCEPT !.prof = s.prof],
                                               f.result, s.prof)
                           ELSE [c1 EXCEPT !.pc = "enrich", !.prof = s.prof],
                  cache |-> s.cache, pool |-> "open"]
        ELSE [call |-> ReturnEnriched(c1, f.result, NoProf),
              cache |-> profileCache, pool |-> pool]

\* getEvent after its fetchWithRetry settled with f: [call, cache, pool]
AfterEventFetch(c, f) ==
    LET c1 == [c EXCEPT !.main = f]
    IN  IF f.phase = "threw"
        THEN [call |-> Throw(c1, f.err), cache |-> profileCache, pool |-> pool]
        ELSE IF f.result = NoRecord
        THEN [call |-> ReturnNull(c1), cache |-> profileCache, pool |-> pool]
        ELSE IF f.result.pubkey # ""
        THEN LET s == getProfile(f.result.pubkey, c.hints)
             IN  [call |-> IF s.prof.state = "done"
                           THEN ReturnEnriched([c1 EXCEPT !.prof = s.prof],
                                               f.result, s.prof)
                           ELSE [c1 EXCEPT !.pc = "enrich", !.prof = s.prof],
                  cache |-> s.cache, pool |-> "open"]
        ELSE [call |-> ReturnEnriched(c1, f.result, NoProf),
              cache |-> profileCache, pool |-> pool]

\* the article is returned without awaiting authorProfilePromise
AfterArticleFetch_NoJoin(c, f) ==
    LET c1 == [c EXCEPT !.main = f]
    IN  IF f.phase = "threw" THEN Throw(c1, f.err)
        ELSE IF f.result = NoRecord THEN ReturnNull(c1)
        ELSE ReturnEnriched(c1, f.result, c.prof)

\* authorProfilePromise has no catch: a failed profile fails the article
AfterArticleFetch_NoCatch(c, f) ==
    LET c1 == [c EXCEPT !.main = f]
    IN  IF f.phase = "threw" THEN Throw(c1, f.err)
        ELSE IF f.result = NoRecord THEN ReturnNull(c1)
        ELSE IF c.prof.state = "done"
        THEN IF c.prof.out = "throw" THEN Throw(c1, c.prof.err)
             ELSE ReturnEnriched(c1, f.result, c.prof)
        ELSE [c1 EXCEPT !.pc = "join"]

\* getArticle after its fetchWithRetry settled with f
AfterArticleFetch(c, f) ==
    LET c1 == [c EXCEPT !.main = f]
    IN  IF f.phase = "threw" THEN Throw(c1, f.err)
        ELSE IF f.result = NoRecord THEN ReturnNull(c1)
        ELSE IF c.prof.state = "done" THEN ReturnEnriched(c1, f.result, c.prof)
        ELSE [c1 EXCEPT !.pc = "join"]

\* the pool settles the query in flight of call i's primary fetchWithRetry
MainResponse(i, net) ==
    /\ calls[i].pc = "main"
    /\ InFlight(calls[i].main)
    /\ net \in NetChoices(calls[i].main)
    /\ LET c == calls[i]
           f == FetchStep(c.main, net, pool)
       IN  IF InFlight(f)
           THEN /\ calls' = [calls EXCEPT ![i].main = f]
                /\ UNCHANGED << profileCache, pool >>
           ELSE IF c.op = "getEvent"
           THEN LET s == AfterEventFetch(c, f)
                IN  /\ calls' = [calls EXCEPT ![i] = s.call]
                    /\ profileCache' = s.cache
                    /\ pool' = s.pool
           ELSE /\ calls' = [calls EXCEPT ![i] = AfterArticleFetch(c, f)]
                /\ UNCHANGED << profileCache, pool >>
    /\ UNCHANGED << defaultEventRelays, defaultProfileRelays, now, holders, started,
                    parseVars, boundaryVars >>

\* getEvent has no try/catch around its getProfile
AfterProfile_NoCatch(c, prof) ==
    LET c1 == [c EXCEPT !.prof = prof]
    IN  IF c.pc = "profile" THEN ReturnProfile(c1, prof)
        ELSE IF c.pc = "enrich" /\ prof.out = "throw" THEN Throw(c1, prof.err)
        ELSE IF c.pc \in {"enrich", "join"} THEN ReturnEnriched(c1, c.main.result, prof)
        ELSE c1

\* the caller of a getProfile that completed with prof
AfterProfile(c, prof) ==
    LET c1 == [c EXCEPT !.prof = prof]
    IN  IF c.pc = "profile" THEN ReturnProfile(c1, prof)
        ELSE IF c.pc \in {"enrich", "join"} THEN ReturnEnriched(c1, c.main.result, prof)
        ELSE c1

\* the pool settles the query in flight of call i's getProfile
ProfileResponse(i, net) ==
    /\ calls[i].prof.state = "fetching"
    /\ net \in NetChoices(calls[i].prof.fetch)
    /\ LET c == calls[i]
           f == FetchStep(c.prof.fetch, net, pool)
       IN  IF InFlight(f)
           THEN /\ calls' = [calls EXCEPT ![i].prof.fetch = f]
                /\ UNCHANGED profileCache
           ELSE LET s == AfterProfileFetch(c.prof, f, c.seq)
                IN  /\ calls' = [calls EXCEPT ![i] = AfterProfile(c, s.prof)]
                    /\ profileCache' = s.cache
    /\ UNCHANGED << defaultEventRelays, defaultProfileRelays, pool, now, holders,
                    started, parseVars, boundaryVars >>

-----------------------------------------------------------------------------
(* Pool lifecycle and the clock *)

\* the queries in flight are on a pool that is being closed
TearDown(c) ==
    [c EXCEPT !.main.torn = @ \/ InFlight(c.main),
              !.prof.fetch.torn = @ \/ InFlight(c.prof.fetch)]

Initialize ==
    /\ pool' = "open"
    /\ calls' = IF pool = "open" THEN [i \in Calls |-> TearDown(calls[i])] ELSE calls
    /\ UNCHANGED << defaultEventRelays, defaultProfileRelays, profileCache, now,
                    holders, started, parseVars, boundaryVars >>

Close ==
    /\ pool' = "null"
    /\ calls' = IF pool = "open" THEN [i \in Calls |-> TearDown(calls[i])] ELSE calls
    /\ profileCache' = EmptyCache
    /\ UNCHANGED << defaultEventRelays, defaultProfileRelays, now, holders, started,
                    parseVars, boundaryVars >>

\* The clock is read only to stamp a cache entry and to compare with the stamp
\* of one: it advances while the cache holds an entry.
Tick ==
    /\ now < MaxTime
    /\ \/ \E pk \in Pubkeys : profileCache[pk].present
       \/ \E k \in StoreKeys : memoryCache[k].present
    /\ now' = now + 1
    /\ UNCHANGED << defaultEventRelays, defaultProfileRelays, pool, profileCache,
                    holders, calls, started, parseVars, boundaryVars >>

\* the caller has taken the result of call i, and nothing of it is in flight
Collect(i) ==
    /\ calls[i].pc = "done"
    /\ calls[i].prof.state # "fetching"
    /\ calls' = [calls EXCEPT ![i] = IdleCall]
    /\ UNCHANGED << defaultEventRelays, defaultProfileRelays, pool, profileCache, now,
                    holders, started, parseVars, boundaryVars >>

-----------------------------------------------------------------------------
(* The service: constructed, then used *)

Init ==
    /\ \E env \in Environments :
          /\ defaultEventRelays =
                 parseRelayList(OrElse(env.event, env.shared), BuiltinEventRelays)
          /\ defaultProfileRelays =
                 parseRelayList(OrElse(env.profile, env.shared), BuiltinProfileRelays)
    /\ pool = "null"
    /\ profileCache = EmptyCache
    /\ now = 0
    /\ holders \in Networks
    /\ calls = [i \in Calls |-> IdleCall]
    /\ started = 0
    /\ ParseIdle
    /\ MemoryCacheIdle
    /\ http = NoRequest

\* no call is in flight: the calls of Spec follow one another
Quiescent == \A i \in Calls : calls[i].op = "idle"

Next ==
    \/ /\ Quiescent
       /\ \E eventId \in EventIdChoices, relayHints \in HintChoices :
             StartGetEvent(1, eventId, relayHints) /\ UNCHANGED boundaryVars
    \/ /\ Quiescent
       /\ \E pubkey \in PubkeyChoices, relayHints \in HintChoices :
             StartGetProfile(1, pubkey, relayHints) /\ UNCHANGED boundaryVars
    \/ /\ Quiescent
       /\ \E author \in PubkeyChoices, identifier \in IdentifierChoices,
             kind \in KindChoices, relayHints \in HintChoices :
             StartGetArticle(1, author, identifier, kind, relayHints)
                 /\ UNCHANGED boundaryVars
    \/ \E i \in Calls, net \in {"answer", "throw", "lost"} : MainResponse(i, net)
    \/ \E i \in Calls, net \in {"answer", "throw", "lost"} : ProfileResponse(i, net)
    \/ \E i \in Calls : Collect(i)
    \/ Initialize
    \/ Close
    \/ Tick

Spec == Init /\ [][Next]_vars

-----------------------------------------------------------------------------
(* The two caches: MemoryCache, and the profile cache as getProfile uses it *)

CacheInit ==
    /\ defaultEventRelays = BuiltinEventRelays
    /\ defaultProfileRelays = BuiltinProfileRelays
    /\ pool = "null"
    /\ profileCache = EmptyCache
    /\ now = 0
    /\ holders = [id \in RecordIds |-> IF id \in {"m1", "m2"} THEN {RA} ELSE {}]
    /\ calls = [i \in Calls |-> IdleCall]
    /\ started = 0
    /\ ParseIdle
    /\ MemoryCacheIdle
    /\ http = NoRequest

serviceFrame ==
    UNCHANGED << defaultEventRelays, defaultProfileRelays, pool, profileCache, now,
                 holders, calls, started, parseVars >>

\* The two caches share nothing but the clock: a behaviour of CacheSpec uses
\* one of them, the MemoryCache or the profile cache.
MemoryCacheUnused == lastCall = NoCall
ServiceUnused == started = 0

CacheNext ==
    \/ /\ ServiceUnused
       /\ \E key \in CacheKeys, value \in CacheValues, ttl \in TtlChoices :
             MemoryCacheSet(key, value, ttl) /\ serviceFrame /\ UNCHANGED http
    \/ /\ ServiceUnused
       /\ \E key \in CacheKeys : MemoryCacheGet(key) /\ serviceFrame /\ UNCHANGED http
    \/ /\ ServiceUnused
       /\ \E key \in CacheKeys : MemoryCacheDelete(key) /\ serviceFrame /\ UNCHANGED http
    \/ ServiceUnused /\ MemoryCacheClear /\ serviceFrame /\ UNCHANGED http
    \/ ServiceUnused /\ MemoryCacheCleanup /\ serviceFrame /\ UNCHANGED http
    \/ /\ Quiescent
       /\ MemoryCacheUnused
       /\ \E pubkey \in Pubkeys :
             StartGetProfile(1, pubkey, <<>>) /\ UNCHANGED boundaryVars
    \/ \E net \in {"answer", "throw"} : ProfileResponse(1, net)
    \/ Collect(1)
    \/ Tick

CacheSpec == CacheInit /\ [][CacheNext]_vars

-----------------------------------------------------------------------------
(* Resolution calls in flight at the same time *)

ConcInit ==
    /\ defaultEventRelays = BuiltinEventRelays
    /\ defaultProfileRelays = BuiltinProfileRelays
    /\ pool = "null"
    /\ profileCache = EmptyCache
    /\ now = 0
    /\ holders \in {h \in Networks : h["e1"] = {RA}}
    /\ calls = [i \in Calls |-> IdleCall]
    /\ started = 0
    /\ ParseIdle
    /\ MemoryCacheIdle
    /\ http = NoRequest

ConcNext ==
    \/ \E i \in Calls, pubkey \in Pubkeys :
          StartGetProfile(i, pubkey, <<>>) /\ UNCHANGED boundaryVars
    \/ StartGetEvent(1, "e1", <<>>) /\ UNCHANGED boundaryVars
    \/ \E relayHints \in {<<>>, <<RC>>} :
          StartGetArticle(2, "pk1", "d1", 30023, relayHints) /\ UNCHANGED boundaryVars
    \/ \E i \in Calls, net \in {"answer", "throw"} : MainResponse(i, net)
    \/ \E i \in Calls, net \in {"answer", "throw"} : ProfileResponse(i, net)
    \/ \E i \in Calls : Collect(i)
    \/ Initialize
    \/ Close
    \/ Tick

ConcSpec == ConcInit /\ [][ConcNext]_vars

-----------------------------------------------------------------------------
(* The HTTP endpoints /e, /p and /a *)

\* one request is served at a time
MayReceive == http.state \in {"idle", "responded"} /\ Quiescent

\* app.get('/e/:eventId') up to its await
HandleEvent(param) ==
    LET key == CacheKey("event:", param)
        cachedResult == MemoryCacheGetValue(memoryCache, key, now)
        h == Received("e", param)
    IN  /\ MayReceive
        /\ MemoryCacheGet(key)
        /\ IF cachedResult # "null"
           THEN http' = Respond(h, 200, "") /\ serviceFrame
           ELSE IF StartsWith(param, "nevent1")
           THEN LET decoded == Decode(param)
                IN  IF ~decoded.ok \/ decoded.type \notin {"note", "nevent"}
                    THEN http' = Respond(h, 400, "Invalid nevent format") /\ serviceFrame
                    ELSE /\ StartGetEvent(1, decoded.id,
                                          IF decoded.type = "note" THEN <<>>
                                          ELSE decoded.relays)
                         /\ http' = h
           ELSE StartGetEvent(1, WholeString(param), <<>>) /\ http' = h

\* app.get('/p/:profileId') up to its await
HandleProfile(param) ==
    LET key == CacheKey("profile:", param)
        cachedResult == MemoryCacheGetValue(memoryCache, key, now)
        h == Received("p", param)
    IN  /\ MayReceive
        /\ MemoryCacheGet(key)
        /\ IF cachedResult # "null"
           THEN http' = Respond(h, 200, "") /\ serviceFrame
           ELSE IF StartsWith(param, "nprofile") \/ StartsWith(param, "npub")
           THEN LET decoded == Decode(param)
                IN  IF ~decoded.ok \/ decoded.type \notin {"nprofile", "npub"}
                    THEN http' = Respond(h, 400, "Invalid nprofile format") /\ serviceFrame
                    ELSE /\ StartGetProfile(1, decoded.pubkey,
                                            IF decoded.type = "npub" THEN <<>>
                                            ELSE decoded.relays)
                         /\ http' = h
           ELSE StartGetProfile(1, WholeString(param), <<>>) /\ http' = h

\* app.get('/a/:addr') up to its await; a decode that throws is caught by the
\* handler's catch
HandleArticle(param) ==
    LET key == CacheKey("article:", param)
        cachedResult == MemoryCacheGetValue(memoryCache, key, now)
        h == Received("a", param)
    IN  /\ MayReceive
        /\ MemoryCacheGet(key)
        /\ IF cachedResult # "null"
           THEN http' = Respond(h, 200, "") /\ serviceFrame
           ELSE IF ~StartsWith(param, "naddr")
           THEN /\ http' = Respond(h, 400, "Invalid address format. Must start with naddr.")
                /\ serviceFrame
           ELSE LET decoded == Decode(param)
                IN  IF ~decoded.ok
                    THEN /\ http' = Respond([h EXCEPT !.details = "decode"], 500,
                                            "Failed to fetch event")
                         /\ serviceFrame
                    ELSE /\ StartGetArticle(1, decoded.pubkey, decoded.identifier,
                                            decoded.kind, decoded.relays)
                         /\ http' = h

\* the resolution call of the request has settled with c
Settle(c) == [http EXCEPT !.result = c.out, !.details = c.err]

Awaited(endpoint) ==
    /\ http.state = "awaiting"
    /\ http.endpoint = endpoint
    /\ calls[1].pc = "done"

\* app.get('/e/:eventId') after its await
EventResult ==
    /\ Awaited("e")
    /\ LET c == calls[1]
       IN  IF c.out = "throw"
           THEN /\ http' = Respond(Settle(c), 500, "Failed to fetch event")
                /\ UNCHANGED memoryCacheVars
           ELSE IF c.out = "null"
           THEN /\ http' = Respond(Settle(c), 404, "Event not found")
                /\ UNCHANGED memoryCacheVars
           ELSE /\ MemoryCacheSet(CacheKey("event:", http.param), c.record.id, defaultTtl)
                /\ http' = Respond(Settle(c), 200, "")
    /\ serviceFrame

\* app.get('/p/:profileId') after its await: author.profile.about is read
\* before the test for a missing profile, and throws when author is null
ProfileResult ==
    /\ Awaited("p")
    /\ LET c == calls[1]
       IN  IF c.out = "throw"
           THEN /\ http' = Respond(Settle(c), 500, "Failed to fetch profile")
                /\ UNCHANGED memoryCacheVars
           ELSE IF c.out = "null"
           THEN /\ http' = Respond([Settle(c) EXCEPT !.details = "TypeError"], 500,
                                   "Failed to fetch profile")
                /\ UNCHANGED memoryCacheVars
           ELSE /\ MemoryCacheSet(CacheKey("profile:", http.param), c.obj.record.id,
                                  defaultTtl)
                /\ http' = Respond(Settle(c), 200, "")
    /\ serviceFrame

\* app.get('/a/:addr') after its await
ArticleResult ==
    /\ Awaited("a")
    /\ LET c == calls[1]
       IN  IF c.out = "throw"
           THEN /\ http' = Respond(Settle(c), 500, "Failed to fetch event")
                /\ UNCHANGED memoryCacheVars
           ELSE IF c.out = "null"
           THEN /\ http' = Respond(Settle(c), 404, "Event not found")
                /\ UNCHANGED memoryCacheVars
           ELSE /\ MemoryCacheSet(CacheKey("article:", http.param), c.record.id,
                                  defaultTtl)
                /\ http' = Respond(Settle(c), 200, "")
    /\ serviceFrame

HttpInit ==
    /\ defaultEventRelays = BuiltinEventRelays
    /\ defaultProfileRelays = BuiltinProfileRelays
    /\ pool = "null"
    /\ profileCache = EmptyCache
    /\ now = 0
    /\ holders \in {h \in Networks : h["e1"] = h["m1"]}
    /\ calls = [i \in Calls |-> IdleCall]
    /\ started = 0
    /\ ParseIdle
    /\ MemoryCacheIdle
    /\ http = NoRequest

HttpNext ==
    \/ \E param \in EventParams : HandleEvent(param)
    \/ \E param \in ProfileParams : HandleProfile(param)
    \/ \E param \in ArticleParams : HandleArticle(param)
    \/ \E net \in {"answer", "throw"} : MainResponse(1, net)
    \/ \E net \in {"answer", "throw"} : ProfileResponse(1, net)
    \/ EventResult
    \/ ProfileResult
    \/ ArticleResult
    \/ http.state = "responded" /\ Collect(1)
    \/ MemoryCacheCleanup /\ serviceFrame /\ UNCHANGED http
    \/ Tick

HttpSpec == HttpInit /\ [][HttpNext]_vars

-----------------------------------------------------------------------------
(* parseRelayList on every configured string *)

RelayInit ==
    /\ defaultEventRelays = BuiltinEventRelays
    /\ defaultProfileRelays = BuiltinProfileRelays
    /\ pool = "null"
    /\ profileCache = EmptyCache
    /\ now = 0
    /\ holders = [id \in RecordIds |-> {}]
    /\ calls = [i \in Calls |-> IdleCall]
    /\ started = 0
    /\ ParseInit
    /\ MemoryCacheIdle
    /\ http = NoRequest

RelayNext == ParseRelayList /\ UNCHANGED serviceVars

RelaySpec == RelayInit /\ [][RelayNext]_vars

-----------------------------------------------------------------------------
(* Claims about parseRelayList (RelaySpec) *)

NoDuplicates(xs) == \A i, j \in 1..Len(xs) : xs[i] = xs[j] => i = j

\* the configured entries: the trimmed pieces of the string that have a
\* websocket scheme
ConfiguredEntries(str) ==
    IF str = <<>> THEN {}
    ELSE {e \in {Trim(piece) : piece \in SeqToSet(Split(str))} : ValidScheme(e)}

\* C8: for every configured string and non-empty fallback list, parseRelayList
\* returns exactly the trimmed, valid-scheme configured entries, without
\* duplicates, and never an empty list: the fallback defaults are returned when
\* the configured string is empty or has no valid entry.
C8_RelayListNeverEmpty ==
    parsed.done =>
        /\ NoDuplicates(parsed.value)
        /\ parsed.value # <<>>
        /\ IF ConfiguredEntries(relaysString) # {}
           THEN SeqToSet(parsed.value) = ConfiguredEntries(relaysString)
           ELSE parsed.value = fallbackRelays

-----------------------------------------------------------------------------
(* Claims about fetchWithRetry (Spec) *)

\* every fetchWithRetry call of the calls in flight
AllFetches == {calls[i].main : i \in Calls} \cup {calls[i].prof.fetch : i \in Calls}

\* the relays that serve a record matching the filter
HeldBy(filter) == UNION {holders[rec.id] : rec \in {r \in Records : Matches(r, filter)}}

InitialSet(f) == SeqToSet(f.relays)

\* union(relays, getAllKnownRelays())
ExpandedSet(f) ==
    SeqToSet(f.relays) \cup SeqToSet(defaultEventRelays) \cup SeqToSet(defaultProfileRelays)

\* a matching record is held only by relays of the expanded set that are not
\* in the initial set
OnlyInExpanded(f) ==
    /\ HeldBy(f.filter) # {}
    /\ HeldBy(f.filter) \subseteq ExpandedSet(f) \ InitialSet(f)

CoversKnown(f) ==
    SeqToSet(defaultEventRelays) \cup SeqToSet(defaultProfileRelays) \subseteq InitialSet(f)

\* C2: when the initial relay list of fetchWithRetry contains every known
\* relay, a miss on the first query returns null and no second pool query is
\* issued: the call issues exactly one query.
C2_NoRetryWhenCovered ==
    \A f \in AllFetches :
        (f.phase # "none" /\ CoversKnown(f)) =>
            /\ f.phase # "retry"
            /\ f.queries = 1
            /\ f.retryRelays = <<>>
            /\ f.from # 2

C2_Witness ==
    \E f \in AllFetches :
        /\ CoversKnown(f)
        /\ f.phase = "returned"
        /\ f.result = NoRecord
        /\ f.queries = 1

-----------------------------------------------------------------------------
(* Claims about getProfile, getEvent and getArticle (Spec) *)

\* call i enters getProfile with a pubkey in this step
ProfileStarted(i) ==
    /\ calls[i].prof.state = "none"
    /\ calls'[i].prof.state # "none"
    /\ calls'[i].prof.pubkey # ""

\* C3: a getProfile called while the profile cache holds an entry of the
\* pubkey that is within its TTL window returns the cached object itself and
\* issues no pool query.
C3_CacheFirst ==
    [][\A i \in Calls :
          ProfileStarted(i) =>
              LET pubkey == calls'[i].prof.pubkey
                  entry == profileCache[pubkey]
              IN  (entry.present /\ now < entry.timestamp + profileCacheTtlMs) =>
                      /\ calls'[i].prof.state = "done"
                      /\ calls'[i].prof.out = "value"
                      /\ calls'[i].prof.obj = entry.value
                      /\ calls'[i].prof.fetch.queries = 0
                      /\ calls'[i].op = "getProfile" =>
                             /\ calls'[i].pc = "done"
                             /\ calls'[i].out = "value"
                             /\ calls'[i].obj = entry.value]_vars

\* the second call, a getProfile, returned the object the first call created,
\* without a pool query
C3_Witness ==
    \E i \in Calls :
        /\ calls[i].op = "getProfile"
        /\ calls[i].seq = 2
        /\ calls[i].out = "value"
        /\ calls[i].obj.oid = 1
        /\ calls[i].prof.fetch.queries = 0

Found(f) == f.phase = "returned" /\ f.result # NoRecord

\* C5: when the event query of getEvent finds a record, getEvent returns that
\* record; when the author-profile resolution throws or returns null the
\* returned record has no author field and getEvent does not fail.
C5_EnrichmentNonFatal ==
    \A i \in Calls :
        (calls[i].op = "getEvent" /\ Found(calls[i].main)) =>
            /\ calls[i].out \in {"none", "value"}
            /\ calls[i].out = "none" =>
                   calls[i].pc = "enrich" /\ calls[i].prof.state = "fetching"
            /\ calls[i].prof.state = "done" =>
                   /\ calls[i].pc = "done"
                   /\ calls[i].out = "value"
                   /\ calls[i].record = calls[i].main.result
                   /\ calls[i].err = ""
                   /\ calls[i].prof.out \in {"null", "throw"} =>
                          calls[i].author = NoObject

C5_Witness ==
    \E i \in Calls :
        /\ calls[i].op = "getEvent"
        /\ Found(calls[i].main)
        /\ calls[i].prof.out = "throw"
        /\ calls[i].out = "value"
        /\ calls[i].author = NoObject

\* C6: getArticle returns the article with author set to the resolved profile
\* when the article query and the profile resolution both succeed, and the
\* article alone, without failing, when the profile resolution throws or
\* returns null, whichever of the two completes first.
C6_ArticleJoin ==
    \A i \in Calls :
        (calls[i].op = "getArticle" /\ Found(calls[i].main)) =>
            /\ calls[i].prof.state = "done" =>
                   /\ calls[i].pc = "done"
                   /\ calls[i].out = "value"
                   /\ calls[i].record = calls[i].main.result
                   /\ calls[i].err = ""
                   /\ calls[i].prof.out = "value" => calls[i].author = calls[i].prof.obj
                   /\ calls[i].prof.out \in {"null", "throw"} =>
                          calls[i].author = NoObject
            /\ calls[i].out \in {"none", "value"}

C6_Witness ==
    \E i \in Calls :
        /\ calls[i].op = "getArticle"
        /\ Found(calls[i].main)
        /\ calls[i].out = "value"
        /\ calls[i].prof.fetch.queries = 2
        /\ calls[i].author # NoObject
        /\ calls[i].author = calls[i].prof.obj

\* C7 as claimed: getArticle never returns while its author-profile resolution
\* is in flight.
C7_NeverReturnsBeforeProfile ==
    \A i \in Calls :
        (calls[i].op = "getArticle" /\ calls[i].pc = "done") =>
            calls[i].prof.state # "fetching"

\* C7 amended: when getArticle returns an article, both the article query and
\* the author-profile resolution have completed; a getArticle that returns
\* null or fails does so without waiting for the profile resolution, which
\* goes on; and a profile resolution that completed leaves the article query
\* in flight.
C7_JoinBarrier ==
    \A i \in Calls :
        calls[i].op = "getArticle" =>
            /\ calls[i].out = "value" =>
                   calls[i].prof.state = "done" /\ Settled(calls[i].main)
            /\ (calls[i].pc = "done" /\ calls[i].prof.state = "fetching") =>
                   calls[i].out \in {"null", "throw"}
            /\ InFlight(calls[i].main) => calls[i].pc = "main" /\ calls[i].out = "none"
            /\ calls[i].pc = "join" =>
                   Found(calls[i].main) /\ calls[i].prof.state = "fetching"

\* the article was found first and getArticle returned it after the profile
\* resolution, which needed its retry
C7_Witness ==
    \E i \in Calls :
        /\ calls[i].op = "getArticle"
        /\ calls[i].out = "value"
        /\ calls[i].main.from = 1
        /\ calls[i].prof.state = "done"
        /\ calls[i].prof.fetch.queries = 2

\* C9: getEvent returns null exactly when its fetchWithRetry found nothing:
\* then the result is null and not an error, and when the event was found the
\* result is never null, whatever the author-profile lookup yields.
C9_NullIffNotFound ==
    \A i \in Calls :
        calls[i].op = "getEvent" =>
            /\ calls[i].out = "null" <=>
                   (calls[i].main.phase = "returned" /\ calls[i].main.result = NoRecord)
            /\ calls[i].out = "null" => calls[i].pc = "done" /\ calls[i].err = ""
            /\ (calls[i].pc = "done" /\ Found(calls[i].main)) =>
                   calls[i].out = "value" /\ calls[i].record = calls[i].main.result

\* no relay of the initial or the expanded set had the event: null after two queries
C9_Witness ==
    \E i \in Calls :
        /\ calls[i].op = "getEvent"
        /\ calls[i].out = "null"
        /\ calls[i].main.queries = 2

\* C10: a pool query for the primary record of getEvent, getArticle or a
\* directly called getProfile that throws fails the call with that error, and
\* fetchWithRetry issues no query after the one that threw.
C10_TransportErrorsPropagate ==
    /\ \A i \in Calls :
          /\ (calls[i].op \in {"getEvent", "getArticle"} /\ calls[i].main.thrownAt > 0) =>
                 /\ calls[i].main.phase = "threw"
                 /\ calls[i].pc = "done"
                 /\ calls[i].out = "throw"
                 /\ calls[i].err = calls[i].main.err
          /\ (calls[i].op = "getProfile" /\ calls[i].prof.fetch.thrownAt > 0) =>
                 /\ calls[i].prof.fetch.phase = "threw"
                 /\ calls[i].pc = "done"
                 /\ calls[i].out = "throw"
                 /\ calls[i].err = calls[i].prof.fetch.err
    /\ \A f \in AllFetches :
          /\ f.thrownAt > 0 =>
                 /\ f.phase = "threw"
                 /\ f.err = "TransportError"
                 /\ f.queries = f.thrownAt
          /\ f.queries <= 2

\* the first query of getEvent threw: the call failed without a retry
C10_Witness ==
    \E i \in Calls :
        /\ calls[i].op = "getEvent"
        /\ calls[i].main.phase = "threw"
        /\ calls[i].main.err = "TransportError"
        /\ calls[i].main.thrownAt = 1
        /\ calls[i].main.queries = 1
        /\ calls[i].out = "throw"

-----------------------------------------------------------------------------
(* Claims about the caches (CacheSpec) *)

\* this step is the call of MemoryCache.get that lastCall' describes
MemoryGetStep ==
    /\ memoryCacheVars' # memoryCacheVars
    /\ lastCall'.method = "get"

\* call i's getProfile returned from the cache in this step
CacheHit(i) ==
    /\ calls'[i].prof.state = "done"
    /\ calls'[i].prof.out = "value"
    /\ calls'[i].prof.fetch.queries = 0

\* C4 as claimed: a cache get returns a stored value only if now < expiresAt
\* (expiresAt = time of set + ttl); a get with now >= expiresAt returns null
\* and removes the entry, leaving the other entries unchanged.
C4_VisibleOnlyBeforeExpiry ==
    [][/\ MemoryGetStep =>
              LET key == lastCall'.key
                  entry == memoryCache[key]
              IN  /\ returned' # "null" =>
                         /\ entry.present
                         /\ now < entry.expiresAt
                         /\ returned' = entry.value
                  /\ (entry.present /\ now >= entry.expiresAt) =>
                         /\ returned' = "null"
                         /\ memoryCache' = [memoryCache EXCEPT ![key] = NoCacheEntry]
       /\ \A i \in Calls :
              ProfileStarted(i) =>
                  LET pubkey == calls'[i].prof.pubkey
                      entry == profileCache[pubkey]
                      expiresAt == entry.timestamp + profileCacheTtlMs
                  IN  /\ CacheHit(i) =>
                             /\ entry.present
                             /\ now < expiresAt
                             /\ calls'[i].prof.obj = entry.value
                      /\ (entry.present /\ now >= expiresAt) =>
                             /\ ~CacheHit(i)
                             /\ profileCache' = [profileCache EXCEPT ![pubkey] = NoEntry]
      ]_vars

\* What the code does: a cache get returns a stored value if and only if
\* now <= expiresAt, and then changes nothing; a get with now > expiresAt
\* returns null and removes the entry, leaving the other entries unchanged.
\* At now = expiresAt the entry is still returned.
VisibleUntilExpiry ==
    [][/\ MemoryGetStep =>
              LET key == lastCall'.key
                  entry == memoryCache[key]
              IN  /\ returned' # "null" =>
                         /\ entry.present
                         /\ now <= entry.expiresAt
                         /\ returned' = entry.value
                  /\ (entry.present /\ now > entry.expiresAt) =>
                         /\ returned' = "null"
                         /\ memoryCache' = [memoryCache EXCEPT ![key] = NoCacheEntry]
                  /\ (entry.present /\ now <= entry.expiresAt) =>
                         /\ returned' = entry.value
                         /\ memoryCache' = memoryCache
       /\ \A i \in Calls :
              ProfileStarted(i) =>
                  LET pubkey == calls'[i].prof.pubkey
                      entry == profileCache[pubkey]
                      expiresAt == entry.timestamp + profileCacheTtlMs
                  IN  /\ CacheHit(i) =>
                             /\ entry.present
                             /\ now <= expiresAt
                             /\ calls'[i].prof.obj = entry.value
                      /\ (entry.present /\ now > expiresAt) =>
                             /\ ~CacheHit(i)
                             /\ profileCache' = [profileCache EXCEPT ![pubkey] = NoEntry]
                      /\ (entry.present /\ now <= expiresAt) =>
                             /\ CacheHit(i)
                             /\ profileCache' = profileCache
      ]_vars

\* a MemoryCache.get past the expiry returned null and removed the entry, the
\* entry of the other key still stored
PurgedOnRead ==
    /\ lastCall.method = "get"
    /\ lastCall.hadEntry
    /\ returned = "null"
    /\ ~memoryCache[lastCall.key].present
    /\ \E k \in CacheKeys : memoryCache[k].present

-----------------------------------------------------------------------------
(* Claims about the arguments of the calls (Spec) *)

\* a required argument of the call is missing
PreconditionFails(c) ==
    \/ c.op = "getEvent" /\ c.args.id = ""
    \/ c.op = "getProfile" /\ c.args.pubkey = ""
    \/ c.op = "getArticle" /\
          (c.args.pubkey = "" \/ c.args.identifier = "" \/ c.args.kind = 0)

PreconditionErrors ==
    {"eventId is required", "pubkey is required",
     "author, identifier and kind are required"}

\* call i is made in this step
CallStarted(i) == calls[i].op = "idle" /\ calls'[i].op # "idle"

\* C11: a getEvent with an empty id, a getProfile with an empty pubkey and a
\* getArticle with author, identifier or kind missing fail at once with a
\* precondition error: no pool query is issued, no author-profile resolution
\* is started, and the profile cache is left as it was.
C11_PreconditionFailsAtOnce ==
    [][\A i \in Calls :
          (CallStarted(i) /\ PreconditionFails(calls'[i])) =>
              /\ calls'[i].pc = "done"
              /\ calls'[i].out = "throw"
              /\ calls'[i].err \in PreconditionErrors
              /\ calls'[i].main = NoFetch
              /\ calls'[i].prof.fetch = NoFetch
              /\ calls'[i].prof.pubkey = ""
              /\ calls'[i].prof.state # "fetching"
              /\ profileCache' = profileCache]_vars

\* a getArticle without identifier failed while the profile cache held the
\* profile of its author
C11_Witness ==
    \E i \in Calls :
        /\ calls[i].op = "getArticle"
        /\ calls[i].args.pubkey = "pk1"
        /\ calls[i].args.identifier = ""
        /\ calls[i].out = "throw"
        /\ calls[i].err = "author, identifier and kind are required"
        /\ profileCache["pk1"].present

-----------------------------------------------------------------------------
(* Claims about relay selection, profile parsing and the retry (Spec) *)

\* list is the duplicate-free union of hints and base, the hint relays placed
\* before every relay that is not a hint
IsSelection(list, hints, base) ==
    /\ NoDuplicates(list)
    /\ SeqToSet(list) = SeqToSet(hints) \cup SeqToSet(base)
    /\ \A i, j \in 1..Len(list) :
          (list[i] \in SeqToSet(hints) /\ list[j] \notin SeqToSet(hints)) => i < j

\* C18: the relay list of every query is the duplicate-free union of the
\* hints of the call and the default list of the purpose (the profile list
\* for a profile query, the event list for an event or article query), with
\* every hint relay before every default relay that is not a hint.
C18_HintsThenDefaults ==
    \A i \in Calls :
        /\ calls[i].main.phase # "none" =>
               IsSelection(calls[i].main.relays, calls[i].hints, defaultEventRelays)
        /\ calls[i].prof.fetch.phase # "none" =>
               IsSelection(calls[i].prof.fetch.relays, calls[i].hints, defaultProfileRelays)

\* a call with one hint that is no default relay queries the hint first, and a
\* profile query with repeated hints follows the profile defaults
C18_Witness ==
    \E i \in Calls :
        /\ calls[i].hints = <<RC>>
        /\ calls[i].main.phase # "none"
        /\ calls[i].main.relays[1] = RC
        /\ Len(calls[i].main.relays) > 1
        /\ calls[i].prof.fetch.phase # "none"
        /\ calls[i].prof.fetch.relays # calls[i].main.relays

\* call i's getProfile completes in this step with a record
ProfileFound(i) ==
    /\ calls[i].prof.state = "fetching"
    /\ calls'[i].prof.state = "done"
    /\ Found(calls'[i].prof.fetch)

\* C19: when the content of the metadata record found by getProfile does not
\* parse, getProfile succeeds, returns the record combined with an empty
\* profile object, and stores that same object in the profile cache under the
\* pubkey.
C19_ParseFailureIsEmptyProfile ==
    [][\A i \in Calls :
          (ProfileFound(i) /\ ~JSONParse(calls'[i].prof.fetch.result.content).ok) =>
              LET prof == calls'[i].prof
              IN  /\ prof.out = "value"
                  /\ prof.err = ""
                  /\ prof.obj.record = prof.fetch.result
                  /\ prof.obj.profile = "{}"
                  /\ profileCache'[prof.pubkey] =
                         [present |-> TRUE, value |-> prof.obj, timestamp |-> now]
                  /\ calls[i].op = "getProfile" =>
                         /\ calls'[i].pc = "done"
                         /\ calls'[i].out = "value"
                         /\ calls'[i].obj = prof.obj]_vars

\* getProfile returned the unparsable record of pk2 with an empty profile, and
\* the cache holds that object
C19_Witness ==
    \E i \in Calls :
        /\ calls[i].op = "getProfile"
        /\ calls[i].args.pubkey = "pk2"
        /\ calls[i].out = "value"
        /\ calls[i].obj.record = Meta2
        /\ calls[i].obj.profile = "{}"
        /\ profileCache["pk2"].present
        /\ profileCache["pk2"].value = calls[i].obj

\* union(relays, getAllKnownRelays()), as a list
Expanded(f) == NewSet(f.relays \o getAllKnownRelays)

StrictlyLarger(f) == Len(Expanded(f)) > Len(f.relays)

\* the first query of f was answered, and with no record
FirstMissed(f) ==
    /\ f.phase \in {"retry", "returned", "threw"}
    /\ f.from # 1
    /\ f.thrownAt # 1

\* C20: when the first query of fetchWithRetry misses and the union of its
\* relays with the known relays is strictly larger than its relays, exactly
\* one further query is issued, on that union and with the retry timeout, and
\* fetchWithRetry returns what that query yields; no fetchWithRetry issues
\* more than two queries.
C20_ExactlyOneRetry ==
    \A f \in AllFetches :
        /\ f.queries <= 2
        /\ f.phase = "first" => f.queries = 1 /\ f.timeoutMs = timeout
        /\ f.queries = 2 => FirstMissed(f) /\ StrictlyLarger(f)
        /\ (FirstMissed(f) /\ StrictlyLarger(f)) =>
               /\ f.queries = 2
               /\ f.retryRelays = Expanded(f)
               /\ f.timeoutMs = retryTimeout
               /\ f.phase # "threw" \/ f.thrownAt = 2

\* What the code does: the retry needs the pool. When close() has taken the
\* pool away under the first query, the call fails with a TypeError before a
\* second query is issued; in every other case the retry is as C20 says.
ExactlyOneRetryOnOpenPool ==
    \A f \in AllFetches :
        /\ f.queries <= 2
        /\ f.phase = "first" => f.queries = 1 /\ f.timeoutMs = timeout
        /\ f.queries = 2 => FirstMissed(f) /\ StrictlyLarger(f)
        /\ (FirstMissed(f) /\ StrictlyLarger(f) /\ f.err # "TypeError") =>
               /\ f.queries = 2
               /\ f.retryRelays = Expanded(f)
               /\ SeqToSet(f.relays) \subseteq SeqToSet(f.retryRelays)
               /\ f.timeoutMs = retryTimeout
               /\ f.timeoutMs # timeout
               /\ f.phase = "returned" =>
                      /\ f.result \in {NoRecord, PoolGet(f.retryRelays, f.filter)}
                      /\ ~f.lost => f.result = PoolGet(f.retryRelays, f.filter)
                      /\ f.from = IF f.result = NoRecord THEN 0 ELSE 2

\* the retry on the larger list found nothing either: absent after two queries
C20_Witness ==
    \E f \in AllFetches :
        /\ StrictlyLarger(f)
        /\ f.phase = "returned"
        /\ f.queries = 2
        /\ f.timeoutMs = retryTimeout
        /\ ~f.lost
        /\ f.result = NoRecord

-----------------------------------------------------------------------------
(* Claims about MemoryCache (CacheSpec) *)

\* this step is the call of MemoryCache.cleanup that lastCall' describes
CleanupStep ==
    /\ memoryCacheVars' # memoryCacheVars
    /\ lastCall'.method = "cleanup"

\* C16: after MemoryCache.cleanup has run at clock value now, the store holds
\* no entry with expiresAt <= now, and every entry with expiresAt > now is
\* still stored, its value and expiry unchanged.
C16_SweepRemovesExpired ==
    [][CleanupStep =>
          \A k \in StoreKeys :
              /\ memoryCache'[k].present => memoryCache'[k].expiresAt > now
              /\ (memoryCache[k].present /\ memoryCache[k].expiresAt > now) =>
                     memoryCache'[k] = memoryCache[k]]_vars

\* What cleanup does: it removes the entries with expiresAt < now and leaves
\* the entries with expiresAt >= now as they are.
SweepRemovesPastExpiry ==
    [][CleanupStep =>
          \A k \in StoreKeys :
              /\ memoryCache'[k].present => memoryCache'[k].expiresAt >= now
              /\ (memoryCache[k].present /\ memoryCache[k].expiresAt >= now) =>
                     memoryCache'[k] = memoryCache[k]]_vars

\* C17: a get(k) that follows set(k, v, ttl) at once, the clock not advanced
\* and ttl > 0, returns v, whatever was stored under k before, and leaves the
\* entry stored.
C17_GetAfterSet ==
    [][\A k \in StoreKeys :
          (MemoryGetStep /\ lastCall'.key = k /\ JustSet(k)) =>
              /\ lastCall.value \in CacheValues
              /\ returned' = lastCall.value
              /\ memoryCache' = memoryCache
              /\ memoryCache'[k].present
              /\ memoryCache'[k].value = lastCall.value
              /\ memoryCache'[k].expiresAt > now]_vars

\* a get returned the value of the set just before it, which had replaced
\* another value stored under the key
C17_Witness ==
    /\ lastCall.method = "get"
    /\ lastCall.justSet
    /\ lastCall.value = "v2"
    /\ lastCall.replaced = "v1"
    /\ returned = "v2"

-----------------------------------------------------------------------------
(* Claims about resolutions in flight at the same time (ConcSpec) *)

\* the calls whose getProfile has a relay query for the pubkey in flight
ProfileQueriesInFlight(pubkey) ==
    {i \in Calls : /\ calls[i].prof.state = "fetching"
                   /\ calls[i].prof.pubkey = pubkey
                   /\ InFlight(calls[i].prof.fetch)}

\* C14: profile resolutions for one pubkey that are in flight at the same
\* time share one relay query: the query for the profile of a pubkey is not
\* issued once per resolution.
C14_OneQueryPerPubkey ==
    \A pubkey \in Pubkeys : Cardinality(ProfileQueriesInFlight(pubkey)) <= 1

\* obj is a whole result of getProfile for the pubkey
Complete(obj, pubkey) ==
    /\ obj.record \in Records
    /\ obj.record.kind = 0
    /\ obj.record.pubkey = pubkey
    /\ obj.profile = IF JSONParse(obj.record.content).ok
                      THEN JSONParse(obj.record.content).value ELSE "{}"
    /\ obj.oid \in 1..started

\* C15: under every interleaving of getProfile resolutions in flight at the
\* same time, the profile-cache entry of a pubkey is absent or holds the whole
\* result object of the resolution that stored last, and a cache read returns
\* absent or the object stored under that pubkey.
C15_LastWriterWins ==
    [][\A pubkey \in Pubkeys :
          /\ profileCache[pubkey].present =>
                 Complete(profileCache[pubkey].value, pubkey)
          /\ (profileCache'[pubkey].present /\
                  profileCache'[pubkey] # profileCache[pubkey]) =>
                 \E i \in Calls : ProfileFound(i) /\ calls'[i].prof.pubkey = pubkey
          /\ \A i \in Calls :
                 /\ (ProfileFound(i) /\ calls'[i].prof.pubkey = pubkey) =>
                        /\ calls'[i].prof.obj.oid = calls[i].seq
                        /\ Complete(calls'[i].prof.obj, pubkey)
                        /\ profileCache'[pubkey] =
                               [present |-> TRUE, value |-> calls'[i].prof.obj,
                                timestamp |-> now]
                 /\ (ProfileStarted(i) /\ calls'[i].prof.pubkey = pubkey /\ CacheHit(i)) =>
                        /\ profileCache[pubkey].present
                        /\ calls'[i].prof.obj = profileCache[pubkey].value]_vars

\* two resolutions of pk1 were in flight together: the second call stored
\* its object first, and the cache holds the object of the first call, which
\* stored last
C15_Witness ==
    \E j \in Calls :
        /\ calls[j].seq = 2
        /\ calls[j].prof.pubkey = "pk1"
        /\ calls[j].prof.out = "value"
        /\ calls[j].prof.obj.oid = 2
        /\ profileCache["pk1"].present
        /\ profileCache["pk1"].value.oid = 1

-----------------------------------------------------------------------------
(* Claims about the HTTP endpoints (HttpSpec) *)

\* C12: for each of the endpoints /e, /p and /a, a request whose resolution
\* call (getEvent, getProfile, getArticle) returned null is answered with
\* status 404, not with a server error.
C12_NotFoundIs404 ==
    (http.state = "responded" /\ http.result = "null") => http.status = 404

\* What the endpoints do: /e and /a answer a null result with 404, /p answers
\* it with 500.
NotFoundIs404ButProfile ==
    (http.state = "responded" /\ http.result = "null") =>
        http.status = IF http.endpoint = "p" THEN 500 ELSE 404

\* C13: a request whose resolution call failed because a required identifier
\* component is missing is answered with a 4xx client error, not with the 500
\* of a transport error.
C13_PreconditionIsClientError ==
    (http.state = "responded" /\ http.result = "throw" /\
         http.details \in PreconditionErrors) =>
        http.status \in 400..499

-----------------------------------------------------------------------------
(* Claims about the common path, the article join and the profile cache (Spec) *)

\* what the relays of the first query answer when they answer
FirstAnswer(f) == PoolGet(f.relays, f.filter)

\* C21: when the first query of fetchWithRetry returns a record,
\* fetchWithRetry returns that record and issues no second query, whether or
\* not the expanded relay list is larger: a second query is issued only after
\* a first query without a record.
C21_NoRetryWhenFound ==
    \A f \in AllFetches :
        /\ f.from = 1 =>
               /\ f.phase = "returned"
               /\ f.result = FirstAnswer(f)
               /\ f.result # NoRecord
               /\ f.queries = 1
               /\ f.retryRelays = <<>>
               /\ f.timeoutMs = timeout
        /\ (f.queries = 2 /\ ~f.lost) => FirstAnswer(f) = NoRecord
        /\ (f.phase = "returned" /\ ~f.lost /\ FirstAnswer(f) # NoRecord) =>
               f.from = 1

\* the first query found the record although the expanded list is larger
C21_Witness ==
    \E f \in AllFetches :
        /\ StrictlyLarger(f)
        /\ f.phase = "returned"
        /\ f.from = 1
        /\ f.queries = 1
        /\ f.result # NoRecord

\* call i's getArticle returns null or throws in this step on its article query
ArticleGivenUp(i) ==
    /\ calls[i].op = "getArticle"
    /\ calls[i].pc = "main"
    /\ calls'[i].pc = "done"
    /\ calls'[i].out \in {"null", "throw"}

\* C22: getArticle starts the resolution of the author profile and issues the
\* article query in the same step, neither waiting for the other, so that both
\* are in flight together; the profile resolution goes on, and stores what it
\* finds in the profile cache, also when the article is absent.
C22_ConcurrentLaunch ==
    [][\A i \in Calls :
          /\ (CallStarted(i) /\ calls'[i].op = "getArticle" /\
                  ~PreconditionFails(calls'[i])) =>
                 LET c == calls'[i]
                 IN  /\ c.pc = "main"
                     /\ c.main.phase = "first"
                     /\ c.main.queries = 1
                     /\ c.prof.state \in {"fetching", "done"}
                     /\ c.prof.pubkey = c.args.pubkey
                     /\ c.prof.state = "fetching" =>
                            /\ c.prof.fetch.phase = "first"
                            /\ c.prof.fetch.queries = 1
                     /\ c.prof.state = "done" =>
                            /\ CacheHit(i)
                            /\ c.prof.fetch = NoFetch
          /\ ArticleGivenUp(i) => calls'[i].prof = calls[i].prof
          /\ (calls[i].op = "getArticle" /\ ProfileFound(i)) =>
                 /\ calls'[i].prof.out = "value"
                 /\ profileCache'[calls'[i].prof.pubkey] =
                        [present |-> TRUE, value |-> calls'[i].prof.obj,
                         timestamp |-> now]]_vars

\* the article is absent, and the resolution started with it has queried the
\* relays and stored the profile of the author
C22_Witness ==
    \E i \in Calls :
        /\ calls[i].op = "getArticle"
        /\ calls[i].pc = "done"
        /\ calls[i].out = "null"
        /\ calls[i].main.result = NoRecord
        /\ calls[i].prof.state = "done"
        /\ calls[i].prof.fetch.queries >= 1
        /\ calls[i].prof.out = "value"
        /\ profileCache[calls[i].prof.pubkey].present
        /\ profileCache[calls[i].prof.pubkey].value = calls[i].prof.obj
        /\ calls[i].prof.obj.oid = calls[i].seq

\* call i's getProfile completes in this step without a profile
ProfileNotResolved(i) ==
    /\ calls[i].prof.state = "fetching"
    /\ calls'[i].prof.state = "done"
    /\ calls'[i].prof.out \in {"null", "throw"}

\* C23: the profile cache holds an entry of a pubkey only if a getProfile of
\* that pubkey found a metadata record of it: an entry is created only by the
\* step in which a resolution finds its record, a getProfile that returns null
\* or throws leaves the cache as it was, and a getProfile called while the
\* cache has no entry of the pubkey queries the relays.
C23_OnlyFoundIsCached ==
    [][\A pubkey \in Pubkeys :
          /\ profileCache[pubkey].present =>
                 /\ profileCache[pubkey].value.record \in Records
                 /\ profileCache[pubkey].value.record.kind = 0
                 /\ profileCache[pubkey].value.record.pubkey = pubkey
                 /\ HeldBy(ProfileFilter(pubkey)) # {}
          /\ (profileCache'[pubkey].present /\
                  profileCache'[pubkey] # profileCache[pubkey]) =>
                 \E i \in Calls :
                     /\ ProfileFound(i)
                     /\ calls'[i].prof.pubkey = pubkey
                     /\ calls'[i].prof.fetch.result = profileCache'[pubkey].value.record
          /\ \A i \in Calls :
                 /\ ProfileNotResolved(i) => profileCache' = profileCache
                 /\ (ProfileStarted(i) /\ calls'[i].prof.pubkey = pubkey /\
                         ~profileCache[pubkey].present) =>
                        /\ calls'[i].prof.state = "fetching"
                        /\ calls'[i].prof.fetch.phase = "first"
                        /\ calls'[i].prof.fetch.queries = 1]_vars

\* the second call, a getProfile of a pubkey no relay has a record of, has
\* queried the relays and returned null, and the cache has no entry of it
C23_Witness ==
    \E i \in Calls :
        /\ calls[i].seq = 2
        /\ calls[i].op = "getProfile"
        /\ calls[i].pc = "done"
        /\ calls[i].out = "null"
        /\ calls[i].prof.fetch.queries >= 1
        /\ HeldBy(ProfileFilter(calls[i].prof.pubkey)) = {}
        /\ ~profileCache[calls[i].prof.pubkey].present

-----------------------------------------------------------------------------
(* Claims about the pool and the relay lists under interleaving (Spec) *)

\* C24: under every interleaving of the calls with initialize() and close(),
\* every pool query, first try and retry, is issued on a pool that is not
\* null: no fetchFromRelays finds this.pool null, also when close() has run
\* between the first query of a resolution and its retry.
C24_QueriesOnOpenPool ==
    \A f \in AllFetches : f.err # "TypeError"

\* What the code does: each operation makes a pool before its first query, so
\* that only the retry can find the pool null, and it then issues no query.
FirstQueryOnOpenPool ==
    \A f \in AllFetches :
        f.err = "TypeError" =>
            /\ f.phase = "threw"
            /\ f.queries = 1
            /\ f.retryRelays = Expanded(f)
            /\ StrictlyLarger(f)
            /\ f.thrownAt = 0

\* the relays of the queries of call c
RelaysOf(c) ==
    SeqToSet(c.main.relays) \cup SeqToSet(c.main.retryRelays) \cup
    SeqToSet(c.prof.fetch.relays) \cup SeqToSet(c.prof.fetch.retryRelays)

\* C25: no operation of the service changes the default event relay list or
\* the default profile relay list, and the relay lists computed for the
\* queries of a call hold the hints of that call and default relays only: the
\* hints of one call never appear in the relay list of another.
C25_RelayListsImmutable ==
    [][/\ defaultEventRelays' = defaultEventRelays
       /\ defaultProfileRelays' = defaultProfileRelays
       /\ defaultEventRelays = BuiltinEventRelays
       /\ defaultProfileRelays = BuiltinProfileRelays
       /\ \A i \in Calls :
              RelaysOf(calls'[i]) \subseteq
                  SeqToSet(calls'[i].hints) \cup SeqToSet(BuiltinEventRelays)
                      \cup SeqToSet(BuiltinProfileRelays)]_vars

\* a getArticle with the hint RC has queried RC for the article and for the
\* profile, and the call made after it, without hints, queries the default
\* relays only
C25_Witness ==
    /\ calls[2].op = "getArticle"
    /\ calls[2].seq = 1
    /\ calls[2].hints = <<RC>>
    /\ RC \in SeqToSet(calls[2].main.relays)
    /\ RC \in SeqToSet(calls[2].prof.fetch.relays)
    /\ calls[1].seq = 2
    /\ calls[1].hints = <<>>
    /\ calls[1].main.phase # "none" \/ calls[1].prof.fetch.phase # "none"
    /\ RC \notin RelaysOf(calls[1])
    /\ defaultEventRelays = BuiltinEventRelays
    /\ defaultProfileRelays = BuiltinProfileRelays

====
